---- MODULE Spec2Model ----
(***************************************************************************)
(* examples/python-simple: the Calculator and Statistics classes and the   *)
(* calls a caller (main.py, the unit tests) makes on them.                  *)
(*                                                                         *)
(* Numbers.  A Python number is an int (exact, unbounded) or a float        *)
(* (binary floating point; +, -, *, / are correctly rounded to the nearest   *)
(* representable value, ties to even).  A number is modelled as a           *)
(* record [t, n, d]: its type tag and its exact value n/d in lowest terms.  *)
(* A float carries Precision significand bits instead of the 53 of a       *)
(* binary64; the exponent range is not bounded (the inputs stay far from    *)
(* overflow and underflow), and -0.0, inf and nan are not modelled.         *)
(***************************************************************************)
EXTENDS Integers, Sequences, FiniteSets, TLC

\* ---------------------------------------------------------------- bounds
\* Significand bits of the modelled float.
Precision == 7
\* Integer operands of the Calculator range over -MaxInt..MaxInt.
MaxInt == 3
\* Longest sequence handed to Statistics, besides the literals of the tests.
MaxLen == 3
\* factorial is called with -MaxFact..MaxFact.
MaxFact == 10

\* ------------------------------------------------------- exact rationals
\* Recursive helpers are functions: an argument is evaluated once, when the
\* function is applied.
Abs(k) == IF k < 0 THEN -k ELSE k

GCD[a \in Nat, b \in Nat] == IF b = 0 THEN a ELSE GCD[b, a % b]

Pow2[k \in Nat] == IF k = 0 THEN 1 ELSE 2 * Pow2[k - 1]

IntPow[b \in Int, k \in Nat] == IF k = 0 THEN 1 ELSE b * IntPow[b, k - 1]

\* How often 2 divides k # 0.
Twos[k \in Int] == IF k % 2 = 0 THEN Twos[k \div 2] + 1 ELSE 0

\* A number: t its type, n/d its value, d > 0, in lowest terms.
Numbers == [t : {"int", "float"}, n : Int, d : Nat \ {0}]

Modes == {"nearest", "floor", "ceil"}

I(k) == [t |-> "int", n |-> k, d |-> 1]

\* Cmp[x, y] has the sign of x - y.  Comparisons are by value: Python's
\* 1 == 1.0 is True.
Cmp[x \in Numbers, y \in Numbers] ==
    LET g == GCD[x.d, y.d] IN x.n * (y.d \div g) - y.n * (x.d \div g)

Eq(x, y) == Cmp[x, y] = 0

Lt(x, y) == Cmp[x, y] < 0

Le(x, y) == Cmp[x, y] <= 0

\* ------------------------------------------------- rounding to a float
\* The float of value m * 2^e.
Float[m \in Int, e \in Int] ==
    IF e >= 0 THEN [t |-> "float", n |-> m * Pow2[e], d |-> 1]
    ELSE LET g == GCD[Abs(m), Pow2[-e]]
         IN  [t |-> "float", n |-> m \div g, d |-> Pow2[-e] \div g]

\* The exponent e with 2^(Precision-1) <= num/den / 2^e < 2^Precision,
\* for num, den > 0.
ExpOf[num \in Nat, den \in Nat] ==
    IF num >= Pow2[Precision] * den THEN ExpOf[num, 2 * den] + 1
    ELSE IF num < Pow2[Precision - 1] * den THEN ExpOf[2 * num, den] - 1
    ELSE 0

\* The integer nearest to sn/sd as mode says, for sn >= 0, sd > 0; neg tells
\* that the number rounded is -sn/sd.
RoundInt[sn \in Nat, sd \in Nat, neg \in BOOLEAN, mode \in Modes] ==
    LET q == sn \div sd
        r == sn % sd
    IN  IF CASE mode = "nearest" -> 2 * r > sd \/ (2 * r = sd /\ q % 2 = 1)
          [] mode = "floor"   -> r # 0 /\ neg
          [] mode = "ceil"    -> r # 0 /\ ~neg
        THEN q + 1 ELSE q

\* a/b * 2^shift rounded to Precision bits, e being ExpOf[a, b].
RoundAt[a \in Nat, b \in Nat, e \in Int, sh \in Int, neg \in BOOLEAN, mode \in Modes] ==
    Float[(IF neg THEN -1 ELSE 1) *
              RoundInt[IF e < 0 THEN a * Pow2[-e] ELSE a,
                       IF e > 0 THEN b * Pow2[e] ELSE b, neg, mode],
          e + sh]

\* As RoundMode, for odd a and b.
RoundOdd[a \in Nat, b \in Nat, shift \in Int, neg \in BOOLEAN, mode \in Modes] ==
    RoundAt[a, b, ExpOf[a, b], shift, neg, mode]

\* num/den (den > 0) rounded to a float: to the nearest one, ties to the even
\* significand ("nearest"), or to the next one below ("floor") or above
\* ("ceil") when num/den is not itself a float.  The powers of two in num and
\* den only shift the exponent.
RoundMode[num \in Int, den \in Nat, mode \in Modes] ==
    IF num = 0 THEN [t |-> "float", n |-> 0, d |-> 1]
    ELSE RoundOdd[Abs(num) \div Pow2[Twos[num]], den \div Pow2[Twos[den]],
                  Twos[num] - Twos[den], num < 0, mode]

\* The arithmetic operators +, -, *, / round to nearest; so does the
\* conversion of an int to a float.
Round(num, den) == RoundMode[num, den, "nearest"]

IsInt(x) == x.t = "int"

ToFloat[x \in Numbers] == IF IsInt(x) THEN Round(x.n, x.d) ELSE x

\* The exact sum, difference and quotient of two floats, rounded.
FloatAdd[a \in Numbers, b \in Numbers, g \in Nat] ==
    Round(a.n * (b.d \div g) + b.n * (a.d \div g), a.d * (b.d \div g))

FloatSub[a \in Numbers, b \in Numbers, g \in Nat] ==
    Round(a.n * (b.d \div g) - b.n * (a.d \div g), a.d * (b.d \div g))

FloatDiv[nn \in Int, dd \in Int] ==
    IF dd < 0 THEN Round(-nn, -dd) ELSE Round(nn, dd)

\* x + y, x - y, x * y: exact on two ints, otherwise the operands become
\* floats and the exact result is rounded.
PyAdd[x \in Numbers, y \in Numbers] ==
    IF IsInt(x) /\ IsInt(y) THEN I(x.n + y.n)
    ELSE FloatAdd[ToFloat[x], ToFloat[y], GCD[x.d, y.d]]

PySub[x \in Numbers, y \in Numbers] ==
    IF IsInt(x) /\ IsInt(y) THEN I(x.n - y.n)
    ELSE FloatSub[ToFloat[x], ToFloat[y], GCD[x.d, y.d]]

PyMul[x \in Numbers, y \in Numbers] ==
    IF IsInt(x) /\ IsInt(y) THEN I(x.n * y.n)
    ELSE FloatDiv[ToFloat[x].n * ToFloat[y].n, ToFloat[x].d * ToFloat[y].d]

\* x / y for y # 0: true division always yields a float; of two ints it is
\* the exact quotient rounded once.
PyDiv[x \in Numbers, y \in Numbers] ==
    IF IsInt(x) /\ IsInt(y) THEN FloatDiv[x.n, y.n]
    ELSE FloatDiv[ToFloat[x].n * ToFloat[y].d, ToFloat[x].d * ToFloat[y].n]

\* ------------------------------------------------------------------ pow
\* w scaled by powers of 4 up to at least 4^(Precision-1), and the number
\* of those powers, negated.
SqrtScale[w \in Nat] == IF w < Pow2[2 * Precision - 2] THEN SqrtScale[4 * w] ELSE w

SqrtExp[w \in Nat] == IF w < Pow2[2 * Precision - 2] THEN SqrtExp[4 * w] - 1 ELSE 0

\* The integer root of w, 4^(Precision-1) <= w < 4^Precision, rounded as
\* mode says: it is never a tie.
RootInt[w \in Nat, mode \in Modes] ==
    LET q == CHOOSE k \in Pow2[Precision - 1]..Pow2[Precision] :
                 k * k <= w /\ w < (k + 1) * (k + 1)
    IN  IF CASE mode = "nearest" -> w > q * q + q
          [] mode = "floor"   -> FALSE
          [] mode = "ceil"    -> w # q * q
        THEN q + 1 ELSE q

\* The root of w0 * 4^h.
SqrtAt[w0 \in Nat, h \in Int, mode \in Modes] ==
    Float[RootInt[SqrtScale[w0], mode], SqrtExp[w0] + h]

\* The root of a * 2^j, a odd.
SqrtOdd[a \in Nat, j \in Int, mode \in Modes] ==
    IF j % 2 = 0 THEN SqrtAt[a, j \div 2, mode]
    ELSE SqrtAt[2 * a, (j - 1) \div 2, mode]

\* The square root of the float x >= 0, rounded as mode says.
SqrtMode[x \in Numbers, mode \in Modes] ==
    IF x.n = 0 THEN x
    ELSE SqrtOdd[x.n \div Pow2[Twos[x.n]], Twos[x.n] - Twos[x.d], mode]

\* x ** y of a float x for the exponents the classes use: 0.5 (std_dev, on
\* x >= 0) and a non-negative integer (the 2 of variance).
FloatPow[a \in Numbers, y \in Numbers, mode \in Modes] ==
    IF y.d = 2 THEN SqrtMode[a, mode]
    ELSE RoundMode[IntPow[a.n, y.n], IntPow[a.d, y.n], mode]

\* x ** y.  Two ints give an exact int.  Otherwise the C library's pow()
\* computes it, which returns the exact result when that is a float and else
\* one of its two float neighbours: which one is the platform's, mode.
PyPow[x \in Numbers, y \in Numbers, mode \in Modes] ==
    IF IsInt(x) /\ IsInt(y) THEN I(IntPow[x.n, y.n])
    ELSE FloatPow[ToFloat[x], y, mode]

\* ---------------------------------------------------------------- state
VARIABLES
    libm,     \* how the platform's pow() rounds an inexact result
    pc,       \* "idle", or "loop" while factorial's for loop runs
    n,        \* factorial: the argument of the call in progress
    i,        \* factorial: the loop variable
    result,   \* factorial: the accumulator
    heap,     \* the lists alive after the last call: heap[1] is the caller's
    ret       \* the last call: its name, its arguments and its outcome

vars == <<libm, pc, n, i, result, heap, ret>>

\* ------------------------------------------------------------- outcomes
None == [t |-> "none", n |-> 0, d |-> 1]

\* return v
Return(v) ==
    [kind |-> "return", val |-> v, ref |-> 0, exc |-> "", msg |-> "", by |-> ""]

\* return of the list object heap[r]
ReturnList(r) ==
    [kind |-> "return", val |-> None, ref |-> r, exc |-> "", msg |-> "", by |-> ""]

\* raise ValueError(msg) in method by
Raise(msg, by) ==
    [kind |-> "raise", val |-> None, ref |-> 0, exc |-> "ValueError",
     msg |-> msg, by |-> by]

\* Python's x // y for y # 0: the floor of the quotient, a float unless both
\* operands are ints.
FloorDiv[x \in Numbers, y \in Numbers] ==
    LET num == (IF y.n < 0 THEN -1 ELSE 1) * x.n * y.d
        den == Abs(y.n) * x.d
    IN  IF IsInt(x) /\ IsInt(y) THEN I(num \div den)
        ELSE ToFloat[I(num \div den)]

\* ----------------------------------------------------------- Calculator
add(a, b) == Return(PyAdd[a, b])

\* b - a in place of a - b.
subtract_swapped(a, b) == Return(PySub[b, a])

subtract(a, b) == Return(PySub[a, b])

multiply(a, b) == Return(PyMul[a, b])

\* a // b in place of a / b.
divide_floordiv(a, b) ==
    IF Eq(b, I(0)) THEN Raise("Division by zero is not allowed", "divide")
    ELSE Return(FloorDiv[a, b])

divide(a, b) ==
    IF Eq(b, I(0)) THEN Raise("Division by zero is not allowed", "divide")
    ELSE Return(PyDiv[a, b])

power(base, exponent) == Return(PyPow[base, exponent, libm])

\* ------------------------------------------------------------- builtins
Lists0 == Seq(Numbers)

\* sum(s): from the int 0, the items added left to right.
SumTo[s \in Lists0, k \in Nat] ==
    IF k = 0 THEN I(0) ELSE PyAdd[SumTo[s, k - 1], s[k]]

sum(s) == SumTo[s, Len(s)]

\* sorted(s): a new list, ascending, equal items in their original order.
InsertSorted[s \in Lists0, x \in Numbers] ==
    IF s = <<>> THEN <<x>>
    ELSE IF Lt(x, Head(s)) THEN <<x>> \o s
    ELSE <<Head(s)>> \o InsertSorted[Tail(s), x]

SortTo[s \in Lists0, k \in Nat] ==
    IF k = 0 THEN <<>> ELSE InsertSorted[SortTo[s, k - 1], s[k]]

sorted(s) == SortTo[s, Len(s)]

\* min(s), max(s) of a non-empty list: the first of the smallest (largest).
MinTo[s \in Lists0, k \in Nat] ==
    IF k = 1 THEN s[1]
    ELSE LET m == MinTo[s, k - 1] IN IF Lt(s[k], m) THEN s[k] ELSE m

min(s) == MinTo[s, Len(s)]

MaxTo[s \in Lists0, k \in Nat] ==
    IF k = 1 THEN s[1]
    ELSE LET m == MaxTo[s, k - 1] IN IF Lt(m, s[k]) THEN s[k] ELSE m

max(s) == MaxTo[s, Len(s)]

\* ----------------------------------------------------------- Statistics
\* A method gets the heap h and the reference r of the caller's list, and
\* gives its outcome and the heap it leaves.  Lists that only the method's
\* locals refer to (sorted_data) are gone on return.
Done(out, h) == [ret |-> out, heap |-> h]

\* sum(data) // len(data) in place of sum(data) / len(data).
mean_floordiv(h, r) ==
    LET data == h[r]
    IN  IF data = <<>>
        THEN Done(Raise("Cannot calculate mean of empty list", "mean"), h)
        ELSE Done(Return(FloorDiv[sum(data), I(Len(data))]), h)

mean(h, r) ==
    LET data == h[r]
    IN  IF data = <<>>
        THEN Done(Raise("Cannot calculate mean of empty list", "mean"), h)
        ELSE Done(Return(PyDiv[sum(data), I(Len(data))]), h)

\* The central elements are taken from data as passed, unsorted.
median_unsorted(h, r) ==
    LET data == h[r]
    IN  IF data = <<>>
        THEN Done(Raise("Cannot calculate median of empty list", "median"), h)
        ELSE LET len == Len(data)
             IN  IF len % 2 = 0
                 THEN Done(Return(PyDiv[PyAdd[data[len \div 2],
                                              data[(len \div 2) + 1]],
                                        I(2)]), h)
                 ELSE Done(Return(data[(len \div 2) + 1]), h)

\* data.sort() in place of sorted_data = sorted(data).
median_inplace(h, r) ==
    LET data == h[r]
    IN  IF data = <<>>
        THEN Done(Raise("Cannot calculate median of empty list", "median"), h)
        ELSE LET sorted_data == sorted(data)
                 len == Len(sorted_data)
                 h2 == [h EXCEPT ![r] = sorted_data]
             IN  IF len % 2 = 0
                 THEN Done(Return(PyDiv[PyAdd[sorted_data[len \div 2],
                                              sorted_data[(len \div 2) + 1]],
                                        I(2)]), h2)
                 ELSE Done(Return(sorted_data[(len \div 2) + 1]), h2)

median(h, r) ==
    LET data == h[r]
    IN  IF data = <<>>
        THEN Done(Raise("Cannot calculate median of empty list", "median"), h)
        ELSE LET sorted_data == sorted(data)
                 len == Len(sorted_data)
             IN  IF len % 2 = 0
                 THEN Done(Return(PyDiv[PyAdd[sorted_data[(len \div 2) - 1 + 1],
                                              sorted_data[(len \div 2) + 1]],
                                        I(2)]), h)
                 ELSE Done(Return(sorted_data[(len \div 2) + 1]), h)

\* sum((x - avg) ** 2 for x in data): the generator's items, added as sum
\* adds them.
SumSq[data \in Lists0, avg \in Numbers, mode \in Modes, k \in Nat] ==
    IF k = 0 THEN I(0)
    ELSE PyAdd[SumSq[data, avg, mode, k - 1],
               PyPow[PySub[data[k], avg], I(2), mode]]

\* The sample variance: the divisor is len(data) - 1, and a list of one
\* item divides by zero.
variance_sample(h, r) ==
    LET data == h[r]
    IN  IF data = <<>>
        THEN Done(Raise("Cannot calculate variance of empty list", "variance"), h)
        ELSE IF Len(data) = 1
        THEN Done([kind |-> "raise", val |-> None, ref |-> 0,
                   exc |-> "ZeroDivisionError", msg |-> "division by zero",
                   by |-> "variance"], h)
        ELSE LET m == mean(h, r)
             IN  Done(Return(PyDiv[SumSq[data, m.ret.val, libm, Len(data)],
                                   I(Len(data) - 1)]), m.heap)

\* variance without its own check of the list: mean's check is the first.
variance_nocheck(h, r) ==
    LET data == h[r]
        m == mean(h, r)
    IN  IF m.ret.kind = "raise" THEN m
        ELSE Done(Return(PyDiv[SumSq[data, m.ret.val, libm, Len(data)],
                               I(Len(data))]), m.heap)

variance(h, r) ==
    LET data == h[r]
    IN  IF data = <<>>
        THEN Done(Raise("Cannot calculate variance of empty list", "variance"), h)
        ELSE LET m == mean(h, r)
             IN  IF m.ret.kind = "raise" THEN m
                 ELSE Done(Return(PyDiv[SumSq[data, m.ret.val, libm, Len(data)],
                                        I(Len(data))]), m.heap)

std_dev(h, r) ==
    LET v == variance(h, r)
    IN  IF v.ret.kind = "raise" THEN v
        ELSE Done(Return(PyPow[v.ret.val, [t |-> "float", n |-> 1, d |-> 2], libm]),
                  v.heap)

\* An empty list is refused, as mean and median refuse it.
min_max_normalize_strict(h, r) ==
    LET data == h[r]
        new  == Len(h) + 1
    IN  IF data = <<>>
        THEN Done(Raise("Cannot normalize empty list", "min_max_normalize"), h)
        ELSE LET min_val == min(data)
                 max_val == max(data)
             IN  IF Eq(max_val, min_val)
                 THEN Done(ReturnList(new),
                           Append(h, [k \in 1..Len(data) |->
                                         [t |-> "float", n |-> 1, d |-> 2]]))
                 ELSE Done(ReturnList(new),
                           Append(h, [k \in 1..Len(data) |->
                                         PyDiv[PySub[data[k], min_val],
                                               PySub[max_val, min_val]]]))

\* Equal elements are mapped to 0.0 in place of 0.5.
min_max_normalize_zeros(h, r) ==
    LET data == h[r]
        new  == Len(h) + 1
    IN  IF data = <<>> THEN Done(ReturnList(new), Append(h, <<>>))
        ELSE LET min_val == min(data)
                 max_val == max(data)
             IN  IF Eq(max_val, min_val)
                 THEN Done(ReturnList(new),
                           Append(h, [k \in 1..Len(data) |->
                                         [t |-> "float", n |-> 0, d |-> 1]]))
                 ELSE Done(ReturnList(new),
                           Append(h, [k \in 1..Len(data) |->
                                         PyDiv[PySub[data[k], min_val],
                                               PySub[max_val, min_val]]]))

\* The list returned is a new object, appended to the heap.
min_max_normalize(h, r) ==
    LET data == h[r]
        new  == Len(h) + 1
    IN  IF data = <<>> THEN Done(ReturnList(new), Append(h, <<>>))
        ELSE LET min_val == min(data)
                 max_val == max(data)
             IN  IF Eq(max_val, min_val)
                 THEN Done(ReturnList(new),
                           Append(h, [k \in 1..Len(data) |->
                                         [t |-> "float", n |-> 1, d |-> 2]]))
                 ELSE Done(ReturnList(new),
                           Append(h, [k \in 1..Len(data) |->
                                         PyDiv[PySub[data[k], min_val],
                                               PySub[max_val, min_val]]]))

\* --------------------------------------------------------------- inputs
Half == [t |-> "float", n |-> 1, d |-> 2]

\* The float literal 0.1: the float nearest to 1/10.
Tenth == Round(1, 10)

\* Operands of the Calculator: ints, and the floats 0.5, 1.5 and 0.1.
Vals == {I(k) : k \in -MaxInt..MaxInt} \cup {Half, Round(3, 2), Tenth}

\* Exponents of power.
Exps == {I(0), I(2), Half}

\* Items of the lists handed to Statistics.
Items == {I(-1), I(0), I(2), Half, Tenth}

Ints(s) == [k \in 1..Len(s) |-> I(s[k])]

\* The lists of main.py and of the unit tests.
DemoData == Ints(<<2, 4, 6, 8, 10, 12, 14>>)

TestData ==
    { Ints(<<1, 2, 3, 4, 5>>), Ints(<<10>>), Ints(<<1, 2, 3, 4>>),
      Ints(<<5, 1, 3, 2, 4>>), Ints(<<1, 1, 1, 1>>), Ints(<<2, 4, 6>>),
      Ints(<<5, 5, 5>>), Ints(<<2, 4, 6, 8>>), Ints(<<10, 20, 30>>),
      <<Round(3, 2), Round(5, 2), Round(7, 2)>> }

Lists ==
    UNION {[1..len -> Items] : len \in 0..MaxLen} \cup TestData \cup {DemoData}

\* ----------------------------------------------------------------- calls
NoPrev == [op |-> "none", args |-> <<>>]

\* The record of a completed call; prev is the call whose result was passed
\* to it as its first argument, if one was.
Call(op, args, prev, out) ==
    [op |-> op, args |-> args, prev |-> prev, kind |-> out.kind,
     val |-> out.val, ref |-> out.ref, exc |-> out.exc, msg |-> out.msg,
     by |-> out.by]

NoCall ==
    [op |-> "none", args |-> <<>>, prev |-> NoPrev, kind |-> "none",
     val |-> None, ref |-> 0, exc |-> "", msg |-> "", by |-> ""]

CalcOps == {"add", "subtract", "multiply", "divide", "power"}

StatOps == {"mean", "median", "variance", "std_dev", "min_max_normalize"}

\* The Calculator calls of main.py.
MainCalls ==
    [add |-> <<I(5), I(3)>>, subtract |-> <<I(10), I(4)>>,
     multiply |-> <<I(6), I(7)>>, divide |-> <<I(15), I(3)>>,
     power |-> <<I(2), I(8)>>]

\* The operands of a Calculator call: fresh ones, or the number the
\* Calculator call before returned with that call's second operand, as in
\* subtract(add(a, b), b); the result of such a call is not passed on again.
Operands(op) ==
    IF ret.op = "none" THEN (Vals \X Vals) \cup {MainCalls[op]}
    ELSE IF ret.op \in CalcOps /\ ret.kind = "return" /\ ret.prev.op = "none"
    THEN {<<ret.val, ret.args[2]>>}
    ELSE {}

\* The list of a Statistics call: a fresh one, or the caller's list of the
\* Statistics call before, passed again as main.py passes data to one
\* method after the other.
DataArgs ==
    IF ret.op = "none" THEN Lists
    ELSE IF ret.op \in StatOps THEN {heap[1]}
    ELSE {}

Init ==
    /\ libm \in {"nearest", "floor", "ceil"}
    /\ pc = "idle"
    /\ n = 0
    /\ i = 0
    /\ result = 0
    /\ heap = <<>>
    /\ ret = NoCall

\* A Calculator call on numbers: no list is involved.
CalcCall(op, a, b, out) ==
    /\ ret' = Call(op, <<a, b>>,
                   IF ret.op = "none" THEN NoPrev
                   ELSE [op |-> ret.op, args |-> ret.args], out)
    /\ heap' = <<>>
    /\ UNCHANGED <<libm, pc, n, i, result>>

Add ==
    /\ pc = "idle"
    /\ \E p \in Operands("add") :
           \E out \in {add(p[1], p[2])} :
               CalcCall("add", p[1], p[2], out)

Subtract ==
    /\ pc = "idle"
    /\ \E p \in Operands("subtract") :
           \E out \in {subtract(p[1], p[2])} :
               CalcCall("subtract", p[1], p[2], out)

Multiply ==
    /\ pc = "idle"
    /\ \E p \in Operands("multiply") :
           \E out \in {multiply(p[1], p[2])} :
               CalcCall("multiply", p[1], p[2], out)

Divide ==
    /\ pc = "idle"
    /\ \E p \in Operands("divide") :
           \E out \in {divide(p[1], p[2])} :
               CalcCall("divide", p[1], p[2], out)

\* power is called on fresh operands, with the exponents PyPow models;
\* base ** 0.5 of a negative base is a complex number: not called.
Power ==
    \E p \in (Vals \X Exps) \cup {MainCalls["power"]} :
        /\ pc = "idle"
        /\ ret.op = "none"
        /\ p[2] = Half => p[1].n >= 0
        /\ \E out \in {power(p[1], p[2])} : CalcCall("power", p[1], p[2], out)

\* factorial(k): the guards return at once; otherwise the for loop starts.
Factorial ==
    \E k \in -MaxFact..MaxFact :
        /\ pc = "idle"
        /\ ret.op = "none"
        /\ heap' = <<>>
        /\ IF k < 0
           THEN /\ ret' = Call("factorial", <<I(k)>>, NoPrev,
                               Raise("Factorial is not defined for negative numbers",
                                     "factorial"))
                /\ UNCHANGED <<pc, n, i, result>>
           ELSE IF k = 0 \/ k = 1
           THEN /\ ret' = Call("factorial", <<I(k)>>, NoPrev, Return(I(1)))
                /\ UNCHANGED <<pc, n, i, result>>
           ELSE /\ pc' = "loop"
                /\ n' = k
                /\ result' = 1
                /\ i' = 2
                /\ UNCHANGED ret
        /\ UNCHANGED libm

\* "result += i" in place of "result *= i".
FactorialStep_adds ==
    /\ pc = "loop"
    /\ i <= n
    /\ result' = result + i
    /\ i' = i + 1
    /\ UNCHANGED <<libm, pc, n, heap, ret>>

\* One iteration of "for i in range(2, n + 1): result *= i".
FactorialStep ==
    /\ pc = "loop"
    /\ i <= n
    /\ result' = result * i
    /\ i' = i + 1
    /\ UNCHANGED <<libm, pc, n, heap, ret>>

\* The range is exhausted: return result.
FactorialReturn ==
    /\ pc = "loop"
    /\ i > n
    /\ ret' = Call("factorial", <<I(n)>>, NoPrev, Return(I(result)))
    /\ pc' = "idle"
    /\ n' = 0
    /\ i' = 0
    /\ result' = 0
    /\ UNCHANGED <<libm, heap>>

\* A Statistics call: the caller builds the list data (heap[1]) and passes
\* it; args keeps what the list held when it was passed.
StatCall(op, data, done) ==
    /\ ret' = Call(op, <<data>>, NoPrev, done.ret)
    /\ heap' = done.heap
    /\ UNCHANGED <<libm, pc, n, i, result>>

Mean ==
    /\ pc = "idle"
    /\ \E data \in DataArgs :
           \E done \in {mean(<<data>>, 1)} :
               StatCall("mean", data, done)

Median ==
    /\ pc = "idle"
    /\ \E data \in DataArgs :
           \E done \in {median(<<data>>, 1)} :
               StatCall("median", data, done)

Variance ==
    /\ pc = "idle"
    /\ \E data \in DataArgs :
           \E done \in {variance(<<data>>, 1)} :
               StatCall("variance", data, done)

StdDev ==
    /\ pc = "idle"
    /\ \E data \in DataArgs :
           \E done \in {std_dev(<<data>>, 1)} :
               StatCall("std_dev", data, done)

MinMaxNormalize ==
    /\ pc = "idle"
    /\ \E data \in DataArgs :
           \E done \in {min_max_normalize(<<data>>, 1)} :
               StatCall("min_max_normalize", data, done)

\* The caller drops the result and the list of the last call.
Drop ==
    /\ pc = "idle"
    /\ ret.op # "none"
    /\ ret' = NoCall
    /\ heap' = <<>>
    /\ UNCHANGED <<libm, pc, n, i, result>>

Next ==
    \/ Drop
    \/ Add
    \/ Subtract
    \/ Multiply
    \/ Divide
    \/ Power
    \/ Factorial
    \/ FactorialStep
    \/ FactorialReturn
    \/ Mean
    \/ Median
    \/ Variance
    \/ StdDev
    \/ MinMaxNormalize

Spec == Init /\ [][Next]_vars

\* The interpreter runs the loop of a call in progress to its end.
FairSpec == Spec /\ WF_vars(FactorialStep) /\ WF_vars(FactorialReturn)

\* ------------------------------------------- exact values, for properties
\* A rational n/d in lowest terms, d > 0: the exact value a property compares
\* a result with.
Rationals == [n : Int, d : Nat \ {0}]

Q[nn \in Int, dd \in Nat \ {0}] ==
    LET g == GCD[Abs(nn), dd] IN [n |-> nn \div g, d |-> dd \div g]

Val(x) == [n |-> x.n, d |-> x.d]

QAdd[x \in Rationals, y \in Rationals] ==
    LET g == GCD[x.d, y.d]
    IN  Q[x.n * (y.d \div g) + y.n * (x.d \div g), (x.d \div g) * y.d]

QNeg(x) == [n |-> -x.n, d |-> x.d]

QSub(x, y) == QAdd[x, QNeg(y)]

QMul[x \in Rationals, y \in Rationals] ==
    LET g == GCD[Abs(x.n), y.d]
        h == GCD[Abs(y.n), x.d]
    IN  [n |-> (x.n \div g) * (y.n \div h), d |-> (x.d \div h) * (y.d \div g)]

\* x / y for y # 0.
QDiv[x \in Rationals, y \in Rationals] ==
    QMul[x, [n |-> (IF y.n < 0 THEN -1 ELSE 1) * y.d, d |-> Abs(y.n)]]

QAbs(x) == [n |-> Abs(x.n), d |-> x.d]

\* a/b <= c/d, by the expansion as continued fractions: no product is taken.
LeFrac[a \in Nat, b \in Nat \ {0}, c \in Nat, d \in Nat \ {0}] ==
    IF a \div b # c \div d THEN a \div b < c \div d
    ELSE IF a % b = 0 THEN TRUE
    ELSE IF c % d = 0 THEN FALSE
    ELSE LeFrac[d, c % d, b, a % b]

\* x <= y, for x, y >= 0.
QLe(x, y) == LeFrac[x.n, x.d, y.n, y.d]

QEq(x, y) == x.n = y.n /\ x.d = y.d

\* err is at most k rounding errors, of 2^-Precision each, relative to the
\* magnitude scale; err, scale >= 0.
Ulps(err, scale, k) ==
    IF scale.n = 0 THEN err.n = 0
    ELSE QLe(QDiv[err, scale], Q[k, Pow2[Precision]])

\* v is q up to k rounding errors.
Within(v, q, k) == Ulps(QAbs(QSub(Val(v), q)), QAbs(q), k)

\* q is the value of a float: m * 2^e with |m| < 2^Precision.
Representable(q) ==
    /\ q.d = Pow2[Twos[q.d]]
    /\ q.n # 0 => Abs(q.n) \div Pow2[Twos[q.n]] < Pow2[Precision]

\* v is the float the exact value q rounds to.
IsFloatOf(v, q) ==
    /\ v.t = "float"
    /\ Within(v, q, 1)
    /\ Representable(q) => QEq(Val(v), q)

NoValue == ret.val = None /\ ret.ref = 0

Raised == ret.kind = "raise" /\ ret.exc = "ValueError" /\ NoValue

Returned == ret.kind = "return" /\ ret.exc = "" /\ ret.msg = ""

\* ---------------------------------------------------------------- claims
\* C1: divide(a, b) raises ValueError and returns no value when b = 0; for
\* b # 0 it raises nothing and returns the (correctly rounded) quotient a / b.
C1_Divide ==
    ret.op = "divide" =>
        IF ret.args[2].n = 0 THEN Raised /\ ret.by = "divide"
        ELSE /\ Returned
             /\ IsFloatOf(ret.val, QDiv[Val(ret.args[1]), Val(ret.args[2])])

\* divide was called with a zero divisor and a non-zero dividend.
C1_Witness ==
    /\ ret.op = "divide"
    /\ ret.args[2].n = 0
    /\ ret.args[1].n # 0
    /\ ret.kind = "raise"

\* k!, by the recurrence 0! = 1, (k + 1)! = (k + 1) * k!.
Fact[k \in Nat] == IF k = 0 THEN 1 ELSE k * Fact[k - 1]

\* What a finished call of factorial left, and what its loop keeps.
C2_Safe ==
    /\ ret.op = "factorial" =>
           IF ret.args[1].n < 0 THEN Raised /\ ret.by = "factorial"
           ELSE /\ Returned
                /\ ret.val = I(Fact[ret.args[1].n])
                /\ ret.args[1].n \in {0, 1} => ret.val = I(1)
                /\ ret.args[1].n = 5 => ret.val = I(120)
                /\ ret.args[1].n = 10 => ret.val = I(3628800)
    /\ pc = "loop" => i \in 2..(n + 1) /\ result = Fact[i - 1]

\* C2: factorial(n) raises ValueError for n < 0; for n >= 0 its loop
\* terminates and it returns n!: 1 for n = 0 and n = 1, 120 for 5, 3628800
\* for 10, and (n + 1)! = (n + 1) * n!.
C2_Factorial == []C2_Safe /\ ((pc = "loop") ~> (pc = "idle"))

\* factorial(10) ran its loop and returned.
C2_Witness ==
    /\ ret.op = "factorial"
    /\ ret.args[1].n = MaxFact
    /\ ret.kind = "return"
    /\ ret.val.n > MaxFact

\* The exact sum of the first k items of s, and of their absolute values.
QSum[s \in Lists0, k \in Nat] ==
    IF k = 0 THEN Q[0, 1] ELSE QAdd[QSum[s, k - 1], Val(s[k])]

QSumAbs[s \in Lists0, k \in Nat] ==
    IF k = 0 THEN Q[0, 1] ELSE QAdd[QSumAbs[s, k - 1], QAbs(Val(s[k]))]

QInt(k) == [n |-> k, d |-> 1]

\* The exact mean of a non-empty list.
QMean(s) == QDiv[QSum[s, Len(s)], QInt(Len(s))]

AllEqual(s) == \A j, k \in 1..Len(s) : Eq(s[j], s[k])

IsLeast(s, k) == \A j \in 1..Len(s) : Le(s[k], s[j])

IsGreatest(s, k) == \A j \in 1..Len(s) : Le(s[j], s[k])

\* x is the r-th smallest item of s.
Rank(s, x, r) ==
    /\ Cardinality({j \in 1..Len(s) : Lt(s[j], x)}) < r
    /\ r <= Cardinality({j \in 1..Len(s) : Le(s[j], x)})

\* The list the Statistics call was given is not empty.
OnData(op) == ret.op = op /\ ret.args[1] # <<>>

Normalized == heap[ret.ref]

\* (x_k - min) / (max - min), exactly, for a list s that is not constant.
QNormal(s, k) ==
    QDiv[QSub(Val(s[k]), Val(min(s))), QSub(Val(max(s)), Val(min(s)))]

\* C4: for a non-empty sequence min_max_normalize returns a sequence of the
\* same length; if all elements are equal every output is 0.5; otherwise
\* output k is (x_k - min) / (max - min) (up to the rounding of the two
\* subtractions and the division), lies in [0, 1], is 0 for a minimum and 1
\* for a maximum, and x_j <= x_k implies y_j <= y_k.
C4_Normalize ==
    OnData("min_max_normalize") =>
        /\ Returned
        /\ Len(Normalized) = Len(ret.args[1])
        /\ IF AllEqual(ret.args[1])
           THEN \A k \in 1..Len(Normalized) : Normalized[k] = Half
           ELSE \A k \in 1..Len(Normalized) :
                    /\ Normalized[k].t = "float"
                    /\ Within(Normalized[k], QNormal(ret.args[1], k), 4)
                    /\ Le(I(0), Normalized[k]) /\ Le(Normalized[k], I(1))
                    /\ IsLeast(ret.args[1], k) => Eq(Normalized[k], I(0))
                    /\ IsGreatest(ret.args[1], k) => Eq(Normalized[k], I(1))
                    /\ \A j \in 1..Len(Normalized) :
                           Le(ret.args[1][j], ret.args[1][k])
                               => Le(Normalized[j], Normalized[k])

\* min_max_normalize returned an output strictly between 0 and 1.
C4_Witness ==
    /\ OnData("min_max_normalize")
    /\ \E k \in 1..Len(Normalized) :
           Lt(I(0), Normalized[k]) /\ Lt(Normalized[k], I(1))
                /\ Normalized[k] # Half

\* s rearranged by the permutation p of its indices.
Permuted(s, p) == [k \in 1..Len(s) |-> s[p[k]]]

\* v is the median of s: the central element of s in ascending order, or
\* the average of the two central ones.
IsMedian(v, s) ==
    IF Len(s) % 2 = 1
    THEN \E k \in 1..Len(s) : v = s[k] /\ Rank(s, s[k], (Len(s) + 1) \div 2)
    ELSE \E j, k \in 1..Len(s) :
             /\ j # k
             /\ Rank(s, s[j], Len(s) \div 2)
             /\ Rank(s, s[k], (Len(s) \div 2) + 1)
             /\ IsFloatOf(v, QDiv[QAdd[Val(s[j]), Val(s[k])], QInt(2)])

\* C5: for a non-empty sequence median returns the central element of the
\* ascending order (odd length) or the average of the two central ones
\* (even length); the result is the same for every rearrangement of the
\* sequence, lies between the minimum and the maximum, and the caller's
\* sequence is left in its order.
C5_Median ==
    OnData("median") =>
        /\ Returned
        /\ IsMedian(ret.val, ret.args[1])
        /\ Le(min(ret.args[1]), ret.val) /\ Le(ret.val, max(ret.args[1]))
        /\ \A p \in Permutations(1..Len(ret.args[1])) :
               Eq(median(<<Permuted(ret.args[1], p)>>, 1).ret.val, ret.val)
        /\ heap = <<ret.args[1]>>

\* median was given a list that is not in ascending order.
C5_Witness ==
    /\ OnData("median")
    /\ ret.kind = "return"
    /\ \E k \in 1..(Len(ret.args[1]) - 1) :
           Lt(ret.args[1][k + 1], ret.args[1][k])
    /\ Len(ret.args[1]) > 2

\* C6: for a non-empty sequence mean returns the sum of the elements divided
\* by their number (up to the rounding of the additions and the division;
\* exactly when the quotient of ints is a float); the mean of <<x>> is x,
\* mean([1, 2, 3, 4, 5]) = 3, and the mean of main.py's data is 8, the value
\* of add(5, 3).
C6_Mean ==
    /\ OnData("mean") =>
           /\ Returned
           /\ ret.val.t = "float"
           /\ Ulps(QAbs(QSub(Val(ret.val), QMean(ret.args[1]))),
                   QDiv[QSumAbs[ret.args[1], Len(ret.args[1])],
                        QInt(Len(ret.args[1]))],
                   Len(ret.args[1]) + 1)
           /\ (\A k \in 1..Len(ret.args[1]) : IsInt(ret.args[1][k]))
                  => IsFloatOf(ret.val, QMean(ret.args[1]))
           /\ Len(ret.args[1]) = 1 => Eq(ret.val, ret.args[1][1])
           /\ ret.args[1] = Ints(<<1, 2, 3, 4, 5>>) => Eq(ret.val, I(3))
           /\ ret.args[1] = DemoData
                  => Eq(ret.val, I(8)) /\ Eq(ret.val, add(I(5), I(3)).val)
    /\ ret.op = "add" /\ ret.args = <<I(5), I(3)>> => ret.val = I(8)

\* mean was given main.py's data.
C6_Witness ==
    /\ OnData("mean")
    /\ ret.args[1] = DemoData
    /\ ret.kind = "return"

\* The exact sum of the squares of x - avg over the first k items of s.
QSumSq[s \in Lists0, avg \in Rationals, k \in Nat] ==
    IF k = 0 THEN Q[0, 1]
    ELSE QAdd[QSumSq[s, avg, k - 1],
              QMul[QSub(Val(s[k]), avg), QSub(Val(s[k]), avg)]]

\* The exact population variance of s about avg.
QVar(s, avg) == QDiv[QSumSq[s, avg, Len(s)], QInt(Len(s))]

\* What mean and variance return for the list s.
MeanOf(s) == mean(<<s>>, 1).ret.val

VarianceOf(s) == variance(<<s>>, 1).ret.val

Square(v) == QMul[Val(v), Val(v)]

\* C7 as the specification states it: variance is the population variance,
\* >= 0, and 0 when all elements are equal; std_dev is >= 0 and its square
\* equals variance.
C7_Original ==
    /\ OnData("variance") =>
           /\ Returned
           /\ Le(I(0), ret.val)
           /\ AllEqual(ret.args[1]) => Eq(ret.val, I(0))
    /\ OnData("std_dev") =>
           /\ Returned
           /\ Le(I(0), ret.val)
           /\ QEq(Square(ret.val), Val(VarianceOf(ret.args[1])))

\* C7 (amended): variance(S) is the sum of the squared deviations from
\* mean(S) divided by n, computed in floating point: it is >= 0, within
\* n + 5 rounding errors of the exact value of that expression, and 0 when
\* all elements are equal and mean(S) returns their value exactly, as it
\* does for ints (variance([1, 1, 1, 1]) = 0, variance([1, 2, 3, 4, 5]) = 2).
\* std_dev(S) is >= 0 and its square equals variance(S) up to the rounding
\* of the square root (5 rounding errors), exactly when variance(S) = 0.
C7_Variance ==
    /\ OnData("variance") =>
           /\ Returned
           /\ ret.val.t = "float"
           /\ Le(I(0), ret.val)
           /\ Within(ret.val, QVar(ret.args[1], Val(MeanOf(ret.args[1]))),
                     Len(ret.args[1]) + 5)
           /\ AllEqual(ret.args[1])
                  /\ ( \/ Eq(MeanOf(ret.args[1]), ret.args[1][1])
                       \/ \A k \in 1..Len(ret.args[1]) : IsInt(ret.args[1][k]) )
                  => Eq(ret.val, I(0))
           /\ ret.args[1] = Ints(<<1, 1, 1, 1>>) => Eq(ret.val, I(0))
           /\ ret.args[1] = Ints(<<1, 2, 3, 4, 5>>) => Eq(ret.val, I(2))
    /\ OnData("std_dev") =>
           /\ Returned
           /\ ret.val.t = "float"
           /\ Le(I(0), ret.val)
           /\ Within(Square(ret.val), Val(VarianceOf(ret.args[1])), 5)
           /\ Eq(VarianceOf(ret.args[1]), I(0)) => Eq(ret.val, I(0))

\* std_dev returned a value whose square is not the variance.
C7_Witness ==
    /\ OnData("std_dev")
    /\ ret.kind = "return"
    /\ ~QEq(Square(ret.val), Val(VarianceOf(ret.args[1])))

\* a, b of the call add(a, b) or multiply(a, b) whose result was passed on.
PrevA == ret.prev.args[1]

PrevB == ret.prev.args[2]

\* C8: subtract(add(a, b), b) = a, and for b # 0 divide(multiply(a, b), b)
\* = a with no error raised: exactly on ints, up to three rounding errors
\* on floats.
C8_RoundTrip ==
    /\ ret.op = "subtract" /\ ret.prev.op = "add" /\ ret.args[2] = PrevB =>
           /\ Returned
           /\ IF IsInt(PrevA) /\ IsInt(PrevB) THEN ret.val = PrevA
              ELSE Ulps(QAbs(QSub(Val(ret.val), Val(PrevA))),
                        QAdd[QAbs(Val(PrevA)), QAbs(Val(PrevB))], 3)
    /\ ret.op = "divide" /\ ret.prev.op = "multiply" /\ ret.args[2] = PrevB
           /\ PrevB.n # 0 =>
           /\ Returned
           /\ IF IsInt(PrevA) /\ IsInt(PrevB) THEN Eq(ret.val, PrevA)
              ELSE Within(ret.val, Val(PrevA), 3)

\* subtract(add(a, b), b) returned a value that is not a.
C8_Witness ==
    /\ ret.op = "subtract"
    /\ ret.prev.op = "add"
    /\ ret.args[2] = PrevB
    /\ ret.kind = "return"
    /\ ~Eq(ret.val, PrevA)

\* What a call left for the caller: its outcome, and the list it returned.
Outcome(c, h) ==
    <<c.kind, c.val, c.exc, c.msg, c.by,
      IF c.ref \in DOMAIN h THEN h[c.ref] ELSE <<>>>>

\* One step of the caller, as C9 states it.
C9_Step ==
    /\ ret'.op \in StatOps => heap'[1] = ret'.args[1]
    /\ ret'.op = "min_max_normalize" /\ ret'.kind = "return" =>
           ret'.ref = 2 /\ Len(heap') = 2
    /\ ret'.kind = "raise" =>
           /\ ret'.val = None /\ ret'.ref = 0
           /\ heap' = IF ret'.op \in StatOps THEN <<ret'.args[1]>> ELSE <<>>
    /\ ret'.op \in StatOps /\ ret'.op # "min_max_normalize" => Len(heap') = 1
    /\ ret.op \in StatOps /\ ret'.op = ret.op /\ ret'.args = ret.args =>
           Outcome(ret', heap') = Outcome(ret, heap)
    /\ pc' = "idle" => n' = 0 /\ i' = 0 /\ result' = 0
    /\ libm' = libm

OnEmpty(op) == ret.op = op /\ ret.args[1] = <<>>

\* C10 as the specification states it: on the empty sequence the error of
\* variance is the one mean raises, and the error of std_dev is that of
\* variance.
C10_Original ==
    /\ OnEmpty("variance") =>
           /\ Raised
           /\ ret.by = "mean"
           /\ ret.msg = mean(<<<<>>>>, 1).ret.msg
    /\ OnEmpty("std_dev") =>
           /\ Raised
           /\ Outcome(ret, heap) = Outcome(variance(<<<<>>>>, 1).ret, <<>>)
    /\ OnData("std_dev") =>
           ret.val = PyPow[VarianceOf(ret.args[1]), Half, libm]

\* C10 (amended): on the empty sequence variance raises the ValueError of
\* its own check of the sequence, made before it calls mean, so that mean's
\* error is never the one the caller sees; std_dev has no check of its own
\* and its error is exactly the one variance raises, as its value is the
\* square root of the value variance returns.
C10_Errors ==
    /\ OnEmpty("variance") =>
           /\ Raised
           /\ ret.by = "variance"
           /\ ret.msg = "Cannot calculate variance of empty list"
           /\ ret.msg # mean(<<<<>>>>, 1).ret.msg
    /\ OnEmpty("std_dev") =>
           /\ Raised
           /\ ret.by = "variance"
           /\ Outcome(ret, heap) = Outcome(variance(<<<<>>>>, 1).ret, <<>>)
    /\ OnData("std_dev") =>
           ret.val = PyPow[VarianceOf(ret.args[1]), Half, libm]

\* std_dev was given the empty list and raised.
C10_Witness ==
    /\ OnEmpty("std_dev")
    /\ ret.kind = "raise"

====
